---- MODULE Spec2Model ----
(***************************************************************************)
(* A model of dockershell/ds.py: the build-root and Dockerfile discovery,  *)
(* the Dockerfile generator and the cli orchestration of the two docker    *)
(* commands (build, then run) in its three dispatch modes.                 *)
(*                                                                         *)
(* Paths are sequences of components as pathlib's Path.parts gives them:   *)
(* an absolute path starts with the component "/".  Text is a sequence of  *)
(* symbols; a symbol is either one of the characters the code's text       *)
(* handling distinguishes (space, the two quotes, the backslash) or a      *)
(* chunk of one or more ordinary characters ("docker", "USER=").           *)
(* The file system holds directories and regular files, no symbolic links, *)
(* so Path.resolve() is making the path absolute and normalising "..".     *)
(***************************************************************************)
EXTENDS Integers, Sequences, FiniteSets, TLC

VARIABLES
    args,             \* the values click passes to cli (flags, -w, COMMAND...)
    start,            \* the directory the program is started in
    cwd,              \* the process's current directory (os.getcwd / os.chdir)
    fs,               \* per directory: the content of its Dockerfile
    pc,               \* where the run is
    git,              \* the outcome of the git rev-parse --show-toplevel query
    root,             \* cli's local root
    dockerfile_path,  \* cli's local dockerfile_path
    work_directory,   \* cli's local work_directory (after line 233)
    command,          \* cli's local command after line 263
    procs,            \* external processes started or exec'ed, in order
    buildRc,          \* the build child's exit status, once it has exited
    fsOps,            \* file system mutations performed, in order
    stdout,           \* lines printed to standard output
    logs,             \* calls of log.info, in order
    exc               \* the exception that ended the run, if any

vars == <<args, start, cwd, fs, pc, git, root, dockerfile_path, work_directory,
          command, procs, buildRc, fsOps, stdout, logs, exc>>

-----------------------------------------------------------------------------
(* Bounds of the model. *)

\* Depth of the directory tree below "/".
MaxDepth == 2

\* Most Dockerfiles present in the tree when getDockerfile is studied alone.
MaxFiles == 2

\* Directory names.
Names == {"a", "b"}

-----------------------------------------------------------------------------
(* Paths (pathlib.Path). *)

NoPath == <<>>

Dockerfile == "Dockerfile"

FsRoot == <<"/">>

\* Every directory of the tree; each exists.
Dirs == {FsRoot \o s : s \in UNION {[1..n -> Names] : n \in 0..MaxDepth}}

IsAbs(p) == Len(p) > 0 /\ p[1] = "/"

\* Path.__truediv__: an absolute right operand replaces the left one.
Join(p, q) == IF IsAbs(q) THEN q ELSE p \o q

\* Path.parent: the root is its own parent.
Parent(p) == IF Len(p) <= 1 THEN p ELSE SubSeq(p, 1, Len(p) - 1)

\* Path.parents of an absolute path: nearest first, "/" last.
Parents(p) == [i \in 1..(Len(p) - 1) |-> SubSeq(p, 1, Len(p) - i)]

\* Normalisation of an absolute path: ".." drops the component before it and
\* stays at "/" when there is none.
RECURSIVE Normalize(_, _)
Normalize(done, rest) ==
    IF rest = <<>> THEN done
    ELSE IF Head(rest) = ".."
         THEN Normalize(IF Len(done) > 1 THEN SubSeq(done, 1, Len(done) - 1) ELSE done,
                        Tail(rest))
         ELSE Normalize(Append(done, Head(rest)), Tail(rest))

\* Path.resolve() in the process directory d.
Resolve(p, d) == LET a == Join(d, p) IN Normalize(FsRoot, Tail(a))

\* Path.exists() in file system f: a directory of the tree, or a Dockerfile
\* that a directory of the tree holds.
Exists(p, f) ==
    \/ p \in Dirs
    \/ /\ Len(p) >= 2
       /\ p[Len(p)] = Dockerfile
       /\ Parent(p) \in Dirs
       /\ f[Parent(p)] # "absent"

\* d is dir or below it.
IsAtOrBelow(d, dir) == Len(d) >= Len(dir) /\ SubSeq(d, 1, Len(dir)) = dir

-----------------------------------------------------------------------------
(* getDockerfile, ds.py lines 42-58. *)

\* Line 56 without the bound: the walk never stops at root.
ReachedRootNever(parent, r) == FALSE

\* Line 56: if parent == root.
ReachedRoot(parent, r) == parent = r

\* The loop of lines 50-57 from the i-th parent on, and line 58 after it.
RECURSIVE GetDockerfileFrom(_, _, _, _, _)
GetDockerfileFrom(ps, i, r, d, f) ==
    IF i > Len(ps) THEN Join(r, <<Dockerfile>>)
    ELSE LET parent == ps[i]
             candidate == Join(parent, <<Dockerfile>>)
         IN  IF Exists(candidate, f) THEN Resolve(candidate, d)
             ELSE IF ReachedRoot(parent, r) THEN candidate
             ELSE GetDockerfileFrom(ps, i + 1, r, d, f)

\* getDockerfile(root) called in process directory d with file system f.
getDockerfile(r, d, f) == GetDockerfileFrom(Parents(Join(d, <<"foo">>)), 1, r, d, f)

-----------------------------------------------------------------------------
(* Text: str.join, str.split, str(Path), shlex.split. *)

Space == " "

Quotes == {"'", "\""}

Escape == "\\"

\* A one-symbol text.
T(sym) == <<sym>>

\* ' '.join(ts)
RECURSIVE JoinText(_)
JoinText(ts) ==
    IF ts = <<>> THEN <<>>
    ELSE IF Len(ts) = 1 THEN ts[1]
    ELSE ts[1] \o <<Space>> \o JoinText(Tail(ts))

\* line.split(' ')
RECURSIVE SplitFrom(_, _, _)
SplitFrom(s, cur, out) ==
    IF s = <<>> THEN Append(out, cur)
    ELSE IF Head(s) = Space THEN SplitFrom(Tail(s), <<>>, Append(out, cur))
    ELSE SplitFrom(Tail(s), Append(cur, Head(s)), out)

SplitSpaces(line) == SplitFrom(line, <<>>, <<>>)

\* "/".join of path components.
RECURSIVE SlashJoin(_)
SlashJoin(cs) ==
    IF cs = <<>> THEN <<>>
    ELSE IF Len(cs) = 1 THEN <<cs[1]>>
    ELSE <<cs[1], "/">> \o SlashJoin(Tail(cs))

\* str(path)
PathText(p) == IF IsAbs(p) THEN <<"/">> \o SlashJoin(Tail(p)) ELSE SlashJoin(p)

\* shlex.split(s): the POSIX-mode tokenizer (whitespace_split, no comment
\* characters) from position i of s, in state st ("ws": between tokens,
\* "word": in a token, a quote character: in that quotation, "esc": after a
\* backslash, to return to state est).  tok is the token read so far, quoted
\* whether it has had a quotation, out the tokens read.
RECURSIVE ShlexRun(_, _, _, _, _, _, _)
ShlexRun(s, i, st, est, tok, quoted, out) ==
    IF i > Len(s)
    THEN CASE st \in Quotes -> [ok |-> FALSE, error |-> "No closing quotation", toks |-> <<>>]
           [] st = "esc"    -> [ok |-> FALSE, error |-> "No escaped character", toks |-> <<>>]
           [] st = "word"   -> [ok |-> TRUE, error |-> "",
                                toks |-> IF tok # <<>> \/ quoted THEN Append(out, tok) ELSE out]
           [] OTHER         -> [ok |-> TRUE, error |-> "", toks |-> out]
    ELSE LET c == s[i] IN
         CASE st = "ws" ->
                IF c = Space THEN ShlexRun(s, i + 1, "ws", est, <<>>, FALSE, out)
                ELSE IF c = Escape THEN ShlexRun(s, i + 1, "esc", "word", <<>>, FALSE, out)
                ELSE IF c \in Quotes THEN ShlexRun(s, i + 1, c, est, <<>>, FALSE, out)
                ELSE ShlexRun(s, i + 1, "word", est, <<c>>, FALSE, out)
           [] st \in Quotes ->
                IF c = st THEN ShlexRun(s, i + 1, "word", est, tok, TRUE, out)
                ELSE IF c = Escape /\ st = "\""
                     THEN ShlexRun(s, i + 1, "esc", st, tok, TRUE, out)
                ELSE ShlexRun(s, i + 1, st, est, Append(tok, c), TRUE, out)
           [] st = "esc" ->
                ShlexRun(s, i + 1, est, est,
                         IF est \in Quotes /\ c # Escape /\ c # est
                         THEN tok \o <<Escape, c>> ELSE Append(tok, c),
                         quoted, out)
           [] OTHER ->
                IF c = Space
                THEN ShlexRun(s, i + 1, "ws", est, <<>>, FALSE,
                              IF tok # <<>> \/ quoted THEN Append(out, tok) ELSE out)
                ELSE IF c \in Quotes THEN ShlexRun(s, i + 1, c, est, tok, quoted, out)
                ELSE IF c = Escape THEN ShlexRun(s, i + 1, "esc", "word", tok, quoted, out)
                ELSE ShlexRun(s, i + 1, "word", est, Append(tok, c), quoted, out)

ShlexSplit(s) == ShlexRun(s, 1, "ws", "word", <<>>, FALSE, <<>>)

-----------------------------------------------------------------------------
(* The environment of a run. *)

\* Path().home().resolve()
Home == <<"/", "home", "alice">>

\* os.getlogin()
User == "alice"

\* os.getuid(), as the f-string renders it
Uid == "1000"

\* The exit status sh maps to ErrorReturnCode_128.
NotARepository == 128

\* logging.WARN and logging.INFO
WARN == 30

INFO == 20

\* Exit statuses of git rev-parse other than success.
GitFailures == {NotARepository, 1}

\* Exit statuses of the docker build child.
ExitCodes == {0, 1}

\* What git rev-parse --show-toplevel can answer in directory d: the top
\* level of a work tree holding d, or a failure.
GitOutcomes(d) ==
    {[rc |-> 0, top |-> t] : t \in {x \in Dirs : IsAtOrBelow(d, x)}}
    \cup {[rc |-> c, top |-> NoPath] : c \in GitFailures}

\* -v and -q counts.
VerbosityInputs == {<<0, 0>>, <<1, 0>>}

\* -w values; NoPath when the option is not given.
WorkDirInputs == {NoPath, <<"a">>, <<"..", "b">>, <<"/", "b">>}

\* COMMAND... values: none, a plain word, a token holding a space, a token
\* holding a quote character, one empty token.
CommandInputs ==
    { <<>>,
      << <<"ls">> >>,
      << <<"echo">>, <<"a", Space, "b">> >>,
      << <<"it", "'", "s">> >>,
      << <<>> >> }

NoExc == [type |-> "none", code |-> 0, cmd |-> <<>>, msg |-> ""]

-----------------------------------------------------------------------------
(* getRoot, ds.py lines 26-39. *)

\* Line 36 catching every exit status.
CaughtAny(rc) == TRUE

\* Line 36: except ErrorReturnCode_128.
Caught(rc) == rc = NotARepository

\* The git query of line 15, as sh starts it in directory d.
GitProc(d) ==
    [via |-> "sh", file |-> T("git"),
     argv |-> <<T("git"), T("rev-parse"), T("--show-toplevel")>>,
     cwd |-> d, quiet |-> FALSE]

\* getRoot() in directory d when the query answers g: the value returned, or
\* the exception that leaves it.
getRoot(d, g) ==
    IF g.rc = 0 THEN [raised |-> FALSE, value |-> Resolve(g.top, d), exc |-> NoExc]
    ELSE IF Caught(g.rc) THEN [raised |-> FALSE, value |-> d, exc |-> NoExc]
    ELSE [raised |-> TRUE, value |-> NoPath,
          exc |-> [type |-> "ErrorReturnCode", code |-> g.rc,
                   cmd |-> GitProc(d).argv, msg |-> ""]]

-----------------------------------------------------------------------------
(* createDockerfile, ds.py lines 61-154. *)

\* The mutations of lines 65 and 153-154 on path p in file system f.
createDockerfileOps(p, f) ==
    (IF Exists(p, f) THEN << <<"unlink", p>> >> ELSE <<>>) \o << <<"write", p>> >>

\* The file system after createDockerfile(p).
createDockerfile(p, f) == [f EXCEPT ![Parent(p)] = "template"]

-----------------------------------------------------------------------------
(* runCommand, ds.py lines 157-179. *)

\* Lines 161-162: what script mode prints for cmd.
ScriptLines(cmd) == <<T("#!/bin/bash"), JoinText(cmd)>>

\* Lines 164-176: the program and argument vector handed to the operating
\* system for cmd, by os.execlp(*cmd) or by Popen(cmd).
Invocation(cmd, exec_mode, quiet, d) ==
    IF exec_mode
    THEN [via |-> "execlp", file |-> cmd[1], argv |-> Tail(cmd), cwd |-> d, quiet |-> FALSE]
    ELSE [via |-> "Popen", file |-> cmd[1], argv |-> cmd, cwd |-> d, quiet |-> quiet]

\* Line 178 taking only a signal's negative status for a failure.
BuildFailedBySignal(rc) == rc < 0

\* Line 178: if p.returncode != 0.
BuildFailed(rc) == rc # 0

-----------------------------------------------------------------------------
(* cli, ds.py lines 196-306. *)

\* Line 222.
LoggingLevel(a) == WARN - 10 * a.verbose + 10 * a.quiet

\* Lines 282 and 304: quiet=logging_level > logging.INFO.
Quiet(a) == LoggingLevel(a) > INFO

\* A log.info call: the message, and whether the level lets it out.
Info(a, msg) == [msg |-> msg, shown |-> INFO >= LoggingLevel(a)]

\* Line 233 without the resolve().
WorkDirectoryUnresolved(w, d) == IF w # NoPath THEN w ELSE d

\* Line 233.
ResolveWorkDirectory(w, d) == IF w # NoPath THEN Resolve(w, d) ELSE Resolve(d, d)

\* Lines 266-281: the build command.
BuildCmd(r, wd) ==
    <<T("docker"), T("buildx"), T("build"), T("."), T("-t"), T("dockershell:latest"),
      T("--build-arg"), <<"USER=", User>>,
      T("--build-arg"), <<"UID=", Uid>>,
      T("--build-arg"), <<"ROOTDIR=">> \o PathText(r),
      T("--build-arg"), <<"WORKDIR=">> \o PathText(wd)>>

\* Lines 287-303: the run command, toks being *command.
RunCmd(wd, toks) ==
    <<T("docker"), T("docker"), T("run"),
      T("-v"), PathText(Home) \o <<":">> \o PathText(Home),
      T("-v"), <<".", ":">> \o PathText(wd),
      T("-it"), T("--rm"), T("--workdir"), PathText(wd),
      T("-u"), T(User), T("dockershell:latest")>> \o toks

\* Lines 252-256 skipping the dry_run test.
InitCreatesAlways(a) == a.init

\* Lines 252-256: createDockerfile is called when init is set and dry_run is not.
InitCreates(a) == a.init /\ ~a.dry_run

\* The file system after lines 252-256.
FsAfterInit(a, p, f) == IF InitCreates(a) THEN createDockerfile(p, f) ELSE f

\* Line 258: if dockerfile_path.exists().
Proceeds(p, f) == Exists(p, f)

-----------------------------------------------------------------------------
(* A run of cli. *)

NoGit == [rc |-> -1, top |-> NoPath]

\* The directories from d up to "/".
Chain(d) == {x \in Dirs : IsAtOrBelow(d, x)}

\* The state when cli is entered: any start directory, any flags, and
\* Dockerfiles of the user's in any of the directories from the start
\* directory up to "/" (the only ones the program looks at).
Init ==
    /\ start \in Dirs
    /\ \E dry \in BOOLEAN, ini \in BOOLEAN, scr \in BOOLEAN, vq \in VerbosityInputs,
          w \in WorkDirInputs, c \in CommandInputs :
          args = [dry_run |-> dry, init |-> ini, script_mode |-> scr,
                  verbose |-> vq[1], quiet |-> vq[2],
                  work_directory |-> w, command |-> c]
    /\ \E S \in SUBSET Chain(start) :
          fs = [d \in Dirs |-> IF d \in S THEN "user" ELSE "absent"]
    /\ cwd = start
    /\ pc = "start"
    /\ git = NoGit
    /\ root = NoPath
    /\ dockerfile_path = NoPath
    /\ work_directory = NoPath
    /\ command = <<>>
    /\ procs = <<>>
    /\ buildRc = -1
    /\ fsOps = <<>>
    /\ stdout = <<>>
    /\ logs = <<>>
    /\ exc = NoExc

\* Lines 226-233: join the command tokens, query git for the root, locate the
\* Dockerfile, resolve the work directory.
Discover ==
    /\ pc = "start"
    /\ \E g \in GitOutcomes(cwd) :
          LET r == getRoot(cwd, g) IN
          /\ git' = g
          /\ procs' = Append(procs, GitProc(cwd))
          /\ command' = JoinText(args.command)
          /\ IF r.raised
             THEN /\ pc' = "raised"
                  /\ exc' = r.exc
                  /\ UNCHANGED <<root, dockerfile_path, work_directory>>
             ELSE /\ pc' = "init"
                  /\ root' = r.value
                  /\ dockerfile_path' = getDockerfile(r.value, cwd, fs)
                  /\ work_directory' = ResolveWorkDirectory(args.work_directory, cwd)
                  /\ UNCHANGED exc
    /\ UNCHANGED <<args, start, cwd, fs, buildRc, fsOps, stdout, logs>>

\* Lines 252-256: --init.
InitStep ==
    /\ pc = "init"
    /\ pc' = "check"
    /\ fs' = FsAfterInit(args, dockerfile_path, fs)
    /\ fsOps' = IF InitCreates(args)
                THEN fsOps \o createDockerfileOps(dockerfile_path, fs) ELSE fsOps
    /\ logs' = IF args.init /\ args.dry_run
               THEN Append(logs, Info(args, "Would have created docker file at: {dockerfile_path}"))
               ELSE logs
    /\ UNCHANGED <<args, start, cwd, git, root, dockerfile_path, work_directory,
                   command, procs, buildRc, stdout, exc>>

\* Line 258 false: there is no Dockerfile and cli returns.
NoDockerfile ==
    /\ pc = "check"
    /\ ~Proceeds(dockerfile_path, fs)
    /\ pc' = "done"
    /\ UNCHANGED <<args, start, cwd, fs, git, root, dockerfile_path, work_directory,
                   command, procs, buildRc, fsOps, stdout, logs, exc>>

\* Lines 259-261: the dry-run report.
DryRunReport ==
    /\ pc = "check"
    /\ Proceeds(dockerfile_path, fs)
    /\ args.dry_run
    /\ pc' = "done"
    /\ logs' = logs \o <<Info(args, "Would have built dockershell:latest"),
                         Info(args, "Would have run dockershell:latest")>>
    /\ UNCHANGED <<args, start, cwd, fs, git, root, dockerfile_path, work_directory,
                   command, procs, buildRc, fsOps, stdout, exc>>

\* Lines 263-284: split the command, change to the Dockerfile's directory and
\* dispatch the build command.
BuildStep ==
    /\ pc = "check"
    /\ Proceeds(dockerfile_path, fs)
    /\ ~args.dry_run
    /\ LET split == IF command # <<>> THEN ShlexSplit(command)
                    ELSE [ok |-> TRUE, error |-> "", toks |-> <<>>]
           dir == Resolve(Parent(dockerfile_path), cwd)
           cmd == BuildCmd(root, work_directory)
       IN  IF ~split.ok
           THEN /\ pc' = "raised"
                /\ exc' = [type |-> "ValueError", code |-> 0, cmd |-> <<>>, msg |-> split.error]
                /\ UNCHANGED <<cwd, command, procs, stdout>>
           ELSE /\ command' = split.toks
                /\ cwd' = dir
                /\ IF args.script_mode
                   THEN /\ stdout' = stdout \o ScriptLines(cmd)
                        /\ pc' = "run"
                        /\ UNCHANGED <<procs, exc>>
                   ELSE \E launched \in BOOLEAN :
                          IF launched
                          THEN /\ procs' = Append(procs, Invocation(cmd, FALSE, Quiet(args), dir))
                               /\ pc' = "building"
                               /\ UNCHANGED <<stdout, exc>>
                          ELSE /\ pc' = "raised"
                               /\ exc' = [type |-> "OSError", code |-> 0, cmd |-> cmd, msg |-> ""]
                               /\ UNCHANGED <<stdout, procs>>
    /\ UNCHANGED <<args, start, fs, git, root, dockerfile_path, work_directory,
                   buildRc, fsOps, logs>>

\* Lines 168-179: Popen's context manager waits for the build child; a status
\* other than zero raises CalledProcessError(returncode, args).
BuildExit ==
    /\ pc = "building"
    /\ \E rc \in ExitCodes :
          /\ buildRc' = rc
          /\ IF BuildFailed(rc)
             THEN /\ pc' = "raised"
                  /\ exc' = [type |-> "CalledProcessError", code |-> rc,
                             cmd |-> BuildCmd(root, work_directory), msg |-> ""]
             ELSE /\ pc' = "run"
                  /\ UNCHANGED exc
    /\ UNCHANGED <<args, start, cwd, fs, git, root, dockerfile_path, work_directory,
                   command, procs, fsOps, stdout, logs>>

\* Lines 285-306: change to the work directory and dispatch the run command;
\* os.execlp replaces the process and does not return.
RunStep ==
    /\ pc = "run"
    /\ LET dir == Resolve(work_directory, cwd)
           cmd == RunCmd(work_directory, command)
       IN  IF dir \notin Dirs
           THEN /\ pc' = "raised"
                /\ exc' = [type |-> "FileNotFoundError", code |-> 0, cmd |-> <<>>, msg |-> ""]
                /\ UNCHANGED <<cwd, procs, stdout>>
           ELSE /\ cwd' = dir
                /\ IF args.script_mode
                   THEN /\ stdout' = stdout \o ScriptLines(cmd)
                        /\ pc' = "done"
                        /\ UNCHANGED <<procs, exc>>
                   ELSE \E launched \in BOOLEAN :
                          IF launched
                          THEN /\ procs' = Append(procs, Invocation(cmd, TRUE, Quiet(args), dir))
                               /\ pc' = "replaced"
                               /\ UNCHANGED <<stdout, exc>>
                          ELSE /\ pc' = "raised"
                               /\ exc' = [type |-> "OSError", code |-> 0, cmd |-> cmd, msg |-> ""]
                               /\ UNCHANGED <<stdout, procs>>
    /\ UNCHANGED <<args, start, fs, git, root, dockerfile_path, work_directory,
                   command, buildRc, fsOps, logs>>

Next ==
    \/ Discover
    \/ InitStep
    \/ NoDockerfile
    \/ DryRunReport
    \/ BuildStep
    \/ BuildExit
    \/ RunStep

Spec == Init /\ [][Next]_vars

-----------------------------------------------------------------------------
(* getDockerfile alone: any current directory, any root, Dockerfiles         *)
(* anywhere in the tree.                                                     *)

LocInit ==
    /\ cwd \in Dirs
    /\ root \in Dirs
    /\ \E S \in {X \in SUBSET Dirs : Cardinality(X) <= MaxFiles} :
          fs = [d \in Dirs |-> IF d \in S THEN "user" ELSE "absent"]
    /\ start = cwd
    /\ pc = "locate"
    /\ dockerfile_path = NoPath
    /\ args = [dry_run |-> FALSE, init |-> FALSE, script_mode |-> FALSE,
               verbose |-> 0, quiet |-> 0, work_directory |-> NoPath, command |-> <<>>]
    /\ git = NoGit
    /\ work_directory = NoPath
    /\ command = <<>>
    /\ procs = <<>>
    /\ buildRc = -1
    /\ fsOps = <<>>
    /\ stdout = <<>>
    /\ logs = <<>>
    /\ exc = NoExc

\* dockerfile_path = getDockerfile(root)
Locate ==
    /\ pc = "locate"
    /\ dockerfile_path' = getDockerfile(root, cwd, fs)
    /\ pc' = "located"
    /\ UNCHANGED <<args, start, cwd, fs, git, root, work_directory, command, procs,
                   buildRc, fsOps, stdout, logs, exc>>

LocNext == Locate

SpecLoc == LocInit /\ [][LocNext]_vars

-----------------------------------------------------------------------------
(* Properties. *)

Shebang == T("#!/bin/bash")

ImageTag == T("dockershell:latest")

\* The run has dispatched its build step (printed it, or started the child).
BuildDispatched == pc \in {"building", "run"}

\* The run has dispatched its run step (printed it, or replaced the process).
RunDispatched == pc = "replaced" \/ (pc = "done" /\ stdout # <<>>)

NormalMode == ~args.dry_run /\ ~args.script_mode

\* The directory -w names from the start directory; the start directory
\* without -w.
ExpectedWorkDir ==
    IF args.work_directory = NoPath THEN start
    ELSE Normalize(FsRoot, Tail(Join(start, args.work_directory)))

\* C1 as stated: in dry-run mode a run starts no external process at all and
\* performs no file system mutation.
C1_DryRunNoProcessNoMutation ==
    args.dry_run =>
        /\ procs = <<>>
        /\ fsOps = <<>>
        /\ \A d \in Dirs : fs[d] # "template"

\* C1 amended: in dry-run mode the only external process a run starts is the one
\* git rev-parse --show-toplevel query of getRoot (never docker), and no
\* Dockerfile is deleted, created or rewritten, --init or not.
C1_DryRunOnlyQueriesGit ==
    args.dry_run =>
        /\ Len(procs) <= 1
        /\ \A i \in DOMAIN procs : procs[i] = GitProc(start)
        /\ fsOps = <<>>
        /\ \A d \in Dirs : fs[d] # "template"

\* A dry run with --init and no Dockerfile anywhere has ended.
C1_Witness ==
    /\ pc = "done"
    /\ args.dry_run
    /\ args.init
    /\ procs = <<GitProc(start)>>
    /\ ~Exists(dockerfile_path, fs)
    /\ Len(logs) = 1

\* C2 as stated: script mode prints one shebang line, then the space-joined
\* build command, then the space-joined run command, and nothing else.
C2_ScriptIsShebangAndTwoLines ==
    (pc = "done" /\ args.script_mode /\ ~args.dry_run /\ Proceeds(dockerfile_path, fs)) =>
        stdout = <<Shebang,
                   JoinText(BuildCmd(root, work_directory)),
                   JoinText(RunCmd(work_directory, command))>>

\* The lines of the printed script that are commands.
CommandLines == SelectSeq(stdout, LAMBDA l : l # Shebang)

\* C3 as stated: each command line of the script, split on spaces, names the
\* program and argument vector that normal mode hands to the operating system
\* for the same command (Popen for the build step, os.execlp for the run step).
C3_ScriptReproducesNormal ==
    (pc = "done" /\ args.script_mode /\ ~args.dry_run /\ Len(CommandLines) = 2) =>
        LET b  == SplitSpaces(CommandLines[1])
            r  == SplitSpaces(CommandLines[2])
            nb == Invocation(BuildCmd(root, work_directory), FALSE, Quiet(args),
                             Parent(dockerfile_path))
            nr == Invocation(RunCmd(work_directory, command), TRUE, Quiet(args), cwd)
        IN  /\ b[1] = nb.file /\ b = nb.argv
            /\ r[1] = nr.file /\ r = nr.argv

\* The directories from the current directory up to root.
LocChain == {d \in Dirs : IsAtOrBelow(cwd, d) /\ IsAtOrBelow(d, root)}

\* C4: with the current directory at or below root, getDockerfile(root) is the
\* Dockerfile of the nearest directory from the current directory up to root
\* that has one, root/Dockerfile (absent) when none has, and never in a
\* directory above root.
C4_NearestDockerfileUpToRoot ==
    (pc = "located" /\ IsAtOrBelow(cwd, root)) =>
        LET have == {d \in LocChain : fs[d] # "absent"} IN
        /\ have # {} =>
              \E d \in have : /\ \A e \in have : Len(e) <= Len(d)
                              /\ dockerfile_path = d \o <<Dockerfile>>
        /\ have = {} =>
              /\ dockerfile_path = root \o <<Dockerfile>>
              /\ ~Exists(dockerfile_path, fs)
        /\ IsAtOrBelow(Parent(dockerfile_path), root)

\* The current directory is two levels below root, its parent and root both
\* hold a Dockerfile, it does not, and the parent's is the one returned.
C4_Witness ==
    /\ pc = "located"
    /\ IsAtOrBelow(cwd, root)
    /\ Len(cwd) = Len(root) + 2
    /\ fs[cwd] = "absent"
    /\ fs[Parent(cwd)] # "absent"
    /\ fs[root] # "absent"
    /\ dockerfile_path = Parent(cwd) \o <<Dockerfile>>

\* C5 as stated: with root neither the current directory nor one of its
\* ancestors, getDockerfile(root) is root/Dockerfile whatever Dockerfiles the
\* current directory and its ancestors hold.
C5_UnrelatedRootFallsBack ==
    (pc = "located" /\ ~IsAtOrBelow(cwd, root)) =>
        dockerfile_path = root \o <<Dockerfile>>

\* C6: in normal mode the run command replaces the process only after the
\* build child was started and has exited with status zero; a build child
\* exiting with another status ends the run with CalledProcessError carrying
\* that status and the build command, and the run command is never started.
C6_BuildThenRun ==
    NormalMode =>
        /\ \A i \in DOMAIN procs :
              procs[i].via = "execlp" =>
                  /\ buildRc = 0
                  /\ \E j \in 1..(i - 1) :
                        /\ procs[j].via = "Popen"
                        /\ procs[j].argv = BuildCmd(root, work_directory)
        /\ pc = "run" => buildRc = 0
        /\ buildRc \notin {-1, 0} =>
              /\ pc = "raised"
              /\ exc = [type |-> "CalledProcessError", code |-> buildRc,
                        cmd |-> BuildCmd(root, work_directory), msg |-> ""]
              /\ \A i \in DOMAIN procs : procs[i].via # "execlp"

\* The build child has exited with zero and the run command has replaced the process.
C6_Witness ==
    /\ NormalMode
    /\ pc = "replaced"
    /\ buildRc = 0
    /\ Len(procs) = 3
    /\ procs[2].via = "Popen"
    /\ procs[3].via = "execlp"

\* C7: getRoot returns the current directory when the git query fails with
\* status 128, the reported top level when it succeeds, and lets every other
\* failure of the query end the run, with no root.
C7_GetRootOutcomes ==
    pc # "start" =>
        /\ git.rc = NotARepository => (root = start /\ exc.type # "ErrorReturnCode")
        /\ git.rc = 0 => (root = git.top /\ exc.type # "ErrorReturnCode")
        /\ git.rc \notin {0, NotARepository} =>
              /\ pc = "raised"
              /\ exc.type = "ErrorReturnCode"
              /\ exc.code = git.rc
              /\ root = NoPath
              /\ dockerfile_path = NoPath
              /\ Len(procs) = 1

\* Outside any work tree, below "/": the root is the start directory.
C7_Witness ==
    /\ pc = "init"
    /\ git.rc = NotARepository
    /\ start # FsRoot
    /\ root = start

\* What follows the image tag in an argument vector.
AfterImageTag(argv) ==
    LET k == CHOOSE i \in DOMAIN argv : argv[i] = ImageTag
    IN  SubSeq(argv, k + 1, Len(argv))

\* C8 as stated: the tokens after the image tag in the run command are the
\* COMMAND tokens given, as many and in the same order.
C8_CommandTokensPreserved ==
    pc = "replaced" => AfterImageTag(procs[Len(procs)].argv) = args.command

\* C9: the build step is dispatched in the Dockerfile's directory, the run step
\* in the work directory -w names (the start directory without -w), which is
\* the directory the run command mounts "." onto.
C9_DispatchDirectories ==
    /\ BuildDispatched => cwd = Parent(dockerfile_path)
    /\ \A i \in DOMAIN procs :
          procs[i].via = "Popen" => procs[i].cwd = Parent(dockerfile_path)
    /\ RunDispatched =>
          /\ cwd = ExpectedWorkDir
          /\ RunCmd(work_directory, command)[7] = <<".", ":">> \o PathText(ExpectedWorkDir)
    /\ \A i \in DOMAIN procs :
          procs[i].via = "execlp" =>
              /\ procs[i].cwd = ExpectedWorkDir
              /\ procs[i].argv[6] = <<".", ":">> \o PathText(ExpectedWorkDir)

\* The run step dispatched with a relative -w and the Dockerfile found above
\* the start directory.
C9_Witness ==
    /\ pc = "replaced"
    /\ args.work_directory = <<"a">>
    /\ Parent(dockerfile_path) # start
    /\ procs[2].cwd = Parent(dockerfile_path)
    /\ cwd = start \o <<"a">>

\* Dry-run has reported that it would have built and run the image.
DryRunReported ==
    /\ \E i \in DOMAIN logs : logs[i].msg = "Would have built dockershell:latest"
    /\ \E i \in DOMAIN logs : logs[i].msg = "Would have run dockershell:latest"

\* C10 as stated: a dry run reports the build and the run exactly when the run
\* without --dry-run, on the same inputs and file system, goes on to them.
C10_DryRunIsFaithfulPreview ==
    (pc = "done" /\ args.dry_run) =>
        (DryRunReported <=>
            Proceeds(dockerfile_path,
                     FsAfterInit([args EXCEPT !.dry_run = FALSE], dockerfile_path, fs)))

====
